---- MODULE Spec2Model ----
(***************************************************************************)
(* Model of the Socratic web back end: the session store that buffers and  *)
(* fans out the output of supervised agent processes, the event stream     *)
(* endpoint, the start / stop / input routes, the knowledge-base accept /  *)
(* reject routes that copy one file between the user's and the agent's     *)
(* knowledge-base directories, the kb-diff route with its line diff, and   *)
(* the save route of the knowledge-base editor.                            *)
(***************************************************************************)
EXTENDS Integers, Sequences, FiniteSets, TLC

VARIABLES
    sessions,   \* TriageSessionStore.sessions: Map id -> {child, logs, clients, status}
    child,      \* the spawned child processes, by the id of their session
    writers,    \* one stream writer per GET /stream request
    created,    \* number of identifiers randomUUID has produced so far
    response,   \* the HTTP status of the last response of a session route
    ghost,      \* history variables: every status a session has had, attach points
    userKb,     \* projects/<name>/knowledge_base: filename -> content
    agentKb,    \* <input_dir>/knowledge_base: filename -> content
    dirs,       \* which of the two knowledge_base directories exist
    config,     \* the state of projects/<name>/project.yaml
    reqs,       \* the kb-accept-file / kb-reject-file requests in flight
    scan,       \* the kb-diff request in flight
    lineDiff,   \* one call of computeUnifiedDiff: its arguments and its result
    feed,       \* the chunks the child process has still to emit on one channel
    kb0,        \* history variable: the two directories before the first request
    page,       \* one browser page: its React state, localStorage, requests in flight
    doc         \* the response of the kb-export request

vars == <<sessions, child, writers, created, response, ghost,
          userKb, agentKb, dirs, config, reqs, scan, lineDiff, feed, kb0, page, doc>>
sessionVars == <<sessions, child, writers, created, response, ghost>>
diffVars == <<scan, lineDiff>>
moreVars == <<feed, kb0, page, doc>>
kbVars == <<userKb, agentKb, dirs, config, reqs, diffVars, moreVars>>

----
(* Bounds *)
MaxSessions == 1    \* sessions started in one run
NumSubs == 2        \* GET /stream requests in one run
MaxChunks == 1      \* 'data' events of all child processes together
MaxChunkLen == 1    \* characters in one 'data' chunk
MaxInputs == 1      \* writes to the stdin of all child processes together
MaxTurns == 1       \* agent turns (running -> waiting) of one session
MaxLines == 3       \* lines of a text given to computeUnifiedDiff
NumReqs == 2        \* accept / reject requests in flight at once
MaxStarts == 2      \* start requests in a run of start and stop requests
MaxFeed == 2        \* chunks in which a child process emits its output
MaxFeedLen == 2     \* characters in one of those chunks
MaxFetches == 2     \* diff requests a page issues on its own account

Ids == 1..MaxSessions
Subs == 1..NumSubs
Reqs == 1..NumReqs
StartIds == 1..MaxStarts

----
(* Sequences *)
IsPrefix(s, t) == Len(s) <= Len(t) /\ SubSeq(t, 1, Len(s)) = s

RECURSIVE SeqsUpTo(_, _)
SeqsUpTo(S, n) ==
    IF n = 0 THEN {<<>>}
    ELSE LET shorter == SeqsUpTo(S, n - 1)
         IN shorter \cup {Append(s, c) : s \in shorter, c \in S}

IndexOfNL(s) ==
    IF \E i \in 1..Len(s) : s[i] = "\n"
    THEN CHOOSE i \in 1..Len(s) : s[i] = "\n" /\ \A j \in 1..(i - 1) : s[j] # "\n"
    ELSE 0

\* String.prototype.split('\n'): the pieces between the terminators, the
\* last piece (possibly empty) included
RECURSIVE split(_)
split(text) ==
    LET i == IndexOfNL(text)
    IN IF i = 0 THEN <<text>>
       ELSE <<SubSeq(text, 1, i - 1)>> \o split(SubSeq(text, i + 1, Len(text)))

----
(* Events sent to a stream writer: data: {type:'log', line} and            *)
(* data: {type:'status', status, code}; code is "absent" when the key is   *)
(* not in the JSON payload.                                                *)
LogEvent(line) == [type |-> "log", line |-> line, status |-> "-", code |-> "-"]
StatusEvent(status, code) == [type |-> "status", line |-> <<>>, status |-> status, code |-> code]

IsLog(e) == e.type = "log"
IsStatus(e) == e.type = "status"

ExitCodes == {"0", "1", "null"}     \* exit code 0, a non-zero code, killed by a signal
Chunks == SeqsUpTo({"a", "\n"}, MaxChunkLen) \ {<<>>}
Texts == {<<"x", "\n", "y">>}

InfoLine == <<"[INFO] session started">>
ErrPrefix == "[ERR] "
ErrLine == <<ErrPrefix, "Process error">>

----
(* TriageSessionStore.  The operations take and return the pair of the     *)
(* session map and the stream writers, st = [s |-> sessions, w |-> writers],*)
(* because appendLog and setStatus write to the writers they find in       *)
(* sess.clients.                                                           *)

\* mutant: the loop over sess.clients stops after the first writer
Broadcast_FirstOnly(w, clients, event) ==
    [x \in DOMAIN w |->
        IF x \in clients /\ \A y \in clients : x <= y
        THEN [w[x] EXCEPT !.recv = Append(@, event)] ELSE w[x]]

\* mutant: no try / catch inside the loop, the first write that throws ends it
Broadcast_StopsAtThrow(w, clients, event) ==
    [x \in DOMAIN w |->
        IF x \in clients /\ \A y \in clients : w[y].state = "broken" => x < y
        THEN [w[x] EXCEPT !.recv = Append(@, event)] ELSE w[x]]

\* for (const writer of sess.clients) try { writer.write(data) } catch {}:
\* the write to a broken writer throws and delivers nothing
Broadcast(w, clients, event) ==
    [x \in DOMAIN w |->
        IF x \in clients /\ w[x].state # "broken"
        THEN [w[x] EXCEPT !.recv = Append(@, event)] ELSE w[x]]

createSession(st, id, ch) ==
    [st EXCEPT !.s = [i \in DOMAIN st.s \cup {id} |->
        IF i = id THEN [child |-> ch, logs |-> <<>>, clients |-> {}, status |-> "running"]
        ELSE st.s[i]]]

getSession(ss, id) == IF id \in DOMAIN ss THEN {ss[id]} ELSE {}

\* mutant: the buffer is replaced by the new line
appendLog_Replace(st, id, line) ==
    IF id \notin DOMAIN st.s THEN st
    ELSE [s |-> [st.s EXCEPT ![id].logs = <<line>>],
          w |-> Broadcast(st.w, st.s[id].clients, LogEvent(line))]

\* mutant: output of the process marks the session as running again
appendLog_MarksRunning(st, id, line) ==
    IF id \notin DOMAIN st.s THEN st
    ELSE [s |-> [st.s EXCEPT ![id].logs = Append(@, line), ![id].status = "running"],
          w |-> Broadcast(st.w, st.s[id].clients, LogEvent(line))]

\* mutant: the line is buffered but not pushed to the attached writers
appendLog_NoBroadcast(st, id, line) ==
    IF id \notin DOMAIN st.s THEN st
    ELSE [st EXCEPT !.s[id].logs = Append(@, line)]

appendLog(st, id, line) ==
    IF id \notin DOMAIN st.s THEN st
    ELSE [s |-> [st.s EXCEPT ![id].logs = Append(@, line)],
          w |-> Broadcast(st.w, st.s[id].clients, LogEvent(line))]

\* mutant: the event is pushed but sess.status keeps its old value
setStatus_NoAssign(st, id, status, code) ==
    IF id \notin DOMAIN st.s THEN st
    ELSE [st EXCEPT !.w = Broadcast(st.w, st.s[id].clients, StatusEvent(status, code))]

\* mutant: sess.status is set but no event is pushed to the writers
setStatus_NoBroadcast(st, id, status, code) ==
    IF id \notin DOMAIN st.s THEN st
    ELSE [st EXCEPT !.s[id].status = status]

\* mutant: for a session that is gone the event still goes to the writers
\* that were attached to it
setStatus_ReachesOrphans(st, id, status, code) ==
    IF id \notin DOMAIN st.s
    THEN [st EXCEPT !.w = Broadcast(st.w, {x \in DOMAIN st.w : st.w[x].session = id},
                                    StatusEvent(status, code))]
    ELSE [s |-> [st.s EXCEPT ![id].status = status],
          w |-> Broadcast(st.w, st.s[id].clients, StatusEvent(status, code))]

setStatus(st, id, status, code) ==
    IF id \notin DOMAIN st.s THEN st
    ELSE [s |-> [st.s EXCEPT ![id].status = status],
          w |-> Broadcast(st.w, st.s[id].clients, StatusEvent(status, code))]

addClient(st, id, writer) ==
    IF id \notin DOMAIN st.s THEN st
    ELSE [st EXCEPT !.s[id].clients = @ \cup {writer}]

removeClient(st, id, writer) ==
    IF id \notin DOMAIN st.s THEN st
    ELSE [st EXCEPT !.s[id].clients = @ \ {writer}]

\* sess.logs.slice(): a copy of the buffer, [] for an unknown id
getLogs(ss, id) == IF id \in DOMAIN ss THEN ss[id].logs ELSE <<>>

\* child.kill(): the signal is sent if the process is still there
kill(ch) == IF ch.state = "alive" THEN [ch EXCEPT !.killed = TRUE] ELSE ch

\* mutant: the process is killed but the registry entry is kept
dispose_KeepsEntry(ss, chs, id) ==
    IF id \notin DOMAIN ss THEN [s |-> ss, c |-> chs]
    ELSE [s |-> ss,
          c |-> IF ~chs[ss[id].child].killed
                THEN [chs EXCEPT ![ss[id].child] = kill(@)]
                ELSE chs]

\* dispose: returns the new session map and the new child table
dispose(ss, chs, id) ==
    IF id \notin DOMAIN ss THEN [s |-> ss, c |-> chs]
    ELSE [s |-> [i \in DOMAIN ss \ {id} |-> ss[i]],
          c |-> IF ~chs[ss[id].child].killed
                THEN [chs EXCEPT ![ss[id].child] = kill(@)]
                ELSE chs]

----
(* The start route (POST): spawn, createSession, first log line, and the   *)
(* handlers it installs on the child.                                      *)

store == [s |-> sessions, w |-> writers]

Respond(code) == response' = code

NoChild == [state |-> "none", killed |-> FALSE, exitCode |-> "null", chunks |-> 0, stdin |-> <<>>]

\* randomUUID(): an identifier never produced before
StartSession ==
    /\ created + 1 \in DOMAIN child
    /\ \E inputDir \in {"", "dir"}, launched \in BOOLEAN :
        IF inputDir = ""
        THEN /\ Respond(400)
             /\ UNCHANGED <<sessions, child, writers, created, ghost>>
        ELSE LET id == created + 1
                 st == appendLog(createSession(store, id, id), id, InfoLine)
             IN /\ created' = id
                /\ child' = [child EXCEPT ![id] =
                        [NoChild EXCEPT !.state = IF launched THEN "alive" ELSE "failed"]]
                /\ sessions' = st.s
                /\ writers' = st.w
                /\ ghost' = [ghost EXCEPT !.statusHist[id] = <<"running">>]
                /\ Respond(200)
    /\ UNCHANGED kbVars

RECURSIVE SumOver(_, _)
SumOver(f, S) ==
    IF S = {} THEN 0
    ELSE LET x == CHOOSE y \in S : TRUE IN f[x] + SumOver(f, S \ {x})

TotalChunks == SumOver([i \in Ids |-> child[i].chunks], Ids)
TotalInputs == SumOver([i \in Ids |-> Len(child[i].stdin)], Ids)

RECURSIVE appendLines(_, _, _, _)
appendLines(st, id, lines, isErr) ==
    IF lines = <<>> THEN st
    ELSE LET actual == Head(lines)
             prefixed == IF isErr THEN <<ErrPrefix>> \o actual ELSE actual
         IN appendLines(appendLog(st, id, prefixed), id, Tail(lines), isErr)

\* text.split('\n').forEach(line => appendLog(sessionId, prefixed))
handleData(st, id, chunk, isErr) == appendLines(st, id, split(chunk), isErr)

\* child.stdout.on('data') / child.stderr.on('data')
ChildData(id) ==
    /\ child[id].state \in {"alive", "exited"}
    /\ TotalChunks < MaxChunks
    /\ \E chunk \in Chunks, isErr \in BOOLEAN :
        LET st == handleData(store, id, chunk, isErr)
        IN /\ sessions' = st.s
           /\ writers' = st.w
    /\ child' = [child EXCEPT ![id].chunks = @ + 1]
    /\ UNCHANGED <<created, response, ghost>>
    /\ UNCHANGED kbVars

\* the ways a child process can emit its output on one channel
FeedChunks == SeqsUpTo({"a", "\n"}, MaxFeedLen) \ {<<>>}
Feeds == SeqsUpTo(FeedChunks, MaxFeed)

\* child.stdout.on('data') / child.stderr.on('data'), the chunks being those
\* the process has still to emit; bytes is history, the output so far
StreamData(id) ==
    /\ child[id].state \in {"alive", "exited"}
    /\ feed.pending # <<>>
    /\ LET st == handleData(store, id, Head(feed.pending), feed.isErr)
       IN /\ sessions' = st.s
          /\ writers' = st.w
    /\ feed' = [feed EXCEPT !.pending = Tail(@), !.bytes = @ \o Head(feed.pending)]
    /\ UNCHANGED <<child, created, response, ghost>>
    /\ UNCHANGED <<userKb, agentKb, dirs, config, reqs, diffVars, kb0, page, doc>>

\* code ?? 0
orZero(code) == IF code = "null" THEN "0" ELSE code

RecordStatus(id, status) ==
    ghost' = IF id \in DOMAIN sessions
             THEN [ghost EXCEPT !.statusHist[id] = Append(@, status)]
             ELSE ghost

\* child.on('exit', code => setStatus(sessionId, 'exited', code ?? 0))
ChildExit(id, code) ==
    /\ child[id].state = "alive"
    /\ LET st == setStatus(store, id, "exited", orZero(code))
       IN /\ sessions' = st.s
          /\ writers' = st.w
    /\ child' = [child EXCEPT ![id].state = "exited", ![id].exitCode = code]
    /\ RecordStatus(id, "exited")
    /\ UNCHANGED <<created, response>>
    /\ UNCHANGED kbVars

\* child.on('error'): the process could not be spawned
ChildError(id) ==
    /\ child[id].state = "failed"
    /\ LET st == setStatus(appendLog(store, id, ErrLine), id, "error", "null")
       IN /\ sessions' = st.s
          /\ writers' = st.w
    /\ child' = [child EXCEPT ![id].state = "errored"]
    /\ RecordStatus(id, "error")
    /\ UNCHANGED <<created, response>>
    /\ UNCHANGED kbVars

----
(* The event stream endpoint (GET /stream?session=id).  The handler runs   *)
(* without suspending from getSession to addClient.                        *)

RECURSIVE LogEvents(_)
LogEvents(lines) ==
    IF lines = <<>> THEN <<>> ELSE <<LogEvent(Head(lines))>> \o LogEvents(Tail(lines))

\* for (const line of existing) write(log); write(status: sess.status)
replay(ss, id) ==
    LogEvents(getLogs(ss, id)) \o <<StatusEvent(ss[id].status, "absent")>>

NoWriter == [session |-> 0, state |-> "idle", recv |-> <<>>]
NoAttach == [logs |-> 0, stat |-> 0]

Attached == {x \in Subs : writers[x].state # "idle"}

\* id 0 stands for a request without a session parameter
\* the request creates a new writer: writers are numbered in the order of
\* their requests
GetStream(w, id) ==
    /\ writers[w].state = "idle"
    /\ w = Cardinality(Attached) + 1
    /\  IF id = 0
        THEN /\ Respond(400)
             /\ UNCHANGED <<sessions, writers, ghost>>
        ELSE IF getSession(sessions, id) = {}
        THEN /\ Respond(404)
             /\ UNCHANGED <<sessions, writers, ghost>>
        ELSE LET opened == [writers EXCEPT ![w] =
                        [session |-> id, state |-> "open", recv |-> replay(sessions, id)]]
                 st == addClient([s |-> sessions, w |-> opened], id, w)
             IN /\ sessions' = st.s
                /\ writers' = st.w
                /\ ghost' = [ghost EXCEPT !.attach[w] =
                        [logs |-> Len(getLogs(sessions, id)),
                         stat |-> Len(ghost.statusHist[id])]]
                /\ Respond(200)
    /\ UNCHANGED <<child, created>>
    /\ UNCHANGED kbVars

\* req.signal 'abort' -> close(): clearInterval, removeClient, writer.close()
Abort(w) ==
    /\ writers[w].state \in {"open", "broken"}
    /\ LET st == removeClient(store, writers[w].session, w)
       IN /\ sessions' = st.s
          /\ writers' = [st.w EXCEPT ![w].state = "closed"]
    /\ UNCHANGED <<child, created, response, ghost>>
    /\ UNCHANGED kbVars

\* the stream of a writer fails (its reader is gone and the abort signal
\* has not been raised): from now on writer.write throws
WriterBreak(w) ==
    /\ writers[w].state = "open"
    /\ writers' = [writers EXCEPT ![w].state = "broken"]
    /\ UNCHANGED <<sessions, child, created, response, ghost>>
    /\ UNCHANGED kbVars

----
(* The stop route and the input route.                                     *)

Stop(id) ==
    /\  IF id = 0
        THEN /\ Respond(400)
             /\ UNCHANGED <<sessions, child>>
        ELSE IF getSession(sessions, id) = {}
        THEN /\ Respond(404)
             /\ UNCHANGED <<sessions, child>>
        ELSE LET d == dispose(sessions, child, id)
             IN /\ sessions' = d.s
                /\ child' = d.c
                /\ Respond(200)
    /\ UNCHANGED <<writers, created, ghost>>
    /\ UNCHANGED kbVars

\* String(text).replace(/\n/g, '\\n')
RECURSIVE escapeNewlines(_)
escapeNewlines(text) ==
    IF text = <<>> THEN <<>>
    ELSE (IF Head(text) = "\n" THEN <<"\\", "n">> ELSE <<Head(text)>>)
         \o escapeNewlines(Tail(text))

\* sess.child.stdin.write(escapedText + '\n'); a write to the stream of a
\* process that is gone reaches nobody
stdinWrite(ch, data) ==
    IF ch.state = "alive" THEN [ch EXCEPT !.stdin = Append(@, data)] ELSE ch

SendInput(id, text) ==
    /\  IF id = 0
        THEN /\ Respond(400)
             /\ UNCHANGED child
        ELSE IF getSession(sessions, id) = {}
        THEN /\ Respond(404)
             /\ UNCHANGED child
        ELSE /\ TotalInputs < MaxInputs
             /\ child' = [child EXCEPT ![sessions[id].child] =
                                stdinWrite(@, escapeNewlines(text) \o <<"\n">>)]
             /\ Respond(200)
    /\ UNCHANGED <<sessions, writers, created, ghost>>
    /\ UNCHANGED kbVars

\* the input route of the synthesize pages:
\* sess.child.stdin.write(String(text) + '\n')
SendInputPlain(id, text) ==
    /\  IF id = 0
        THEN /\ Respond(400)
             /\ UNCHANGED child
        ELSE IF getSession(sessions, id) = {}
        THEN /\ Respond(404)
             /\ UNCHANGED child
        ELSE /\ TotalInputs < MaxInputs
             /\ child' = [child EXCEPT ![sessions[id].child] =
                                stdinWrite(@, text \o <<"\n">>)]
             /\ Respond(200)
    /\ UNCHANGED <<sessions, writers, created, ghost>>
    /\ UNCHANGED kbVars

----
(* Turn boundaries.  The route that detects the end of an agent turn is    *)
(* not among the sources; the two transitions are taken from the session   *)
(* state machine: running -> waiting when the agent finished a turn,       *)
(* waiting -> running when new input is accepted.                          *)

Turns(id) == Len(SelectSeq(ghost.statusHist[id], LAMBDA x : x = "waiting"))

TurnWaiting(id) ==
    /\ id \in DOMAIN sessions
    /\ sessions[id].status = "running"
    /\ child[sessions[id].child].state = "alive"
    /\ Turns(id) < MaxTurns
    /\ LET st == setStatus(store, id, "waiting", "null")
       IN /\ sessions' = st.s
          /\ writers' = st.w
    /\ RecordStatus(id, "waiting")
    /\ UNCHANGED <<child, created, response>>
    /\ UNCHANGED kbVars

TurnRunning(id) ==
    /\ id \in DOMAIN sessions
    /\ sessions[id].status = "waiting"
    /\ child[sessions[id].child].state = "alive"
    /\ LET st == setStatus(store, id, "running", "null")
       IN /\ sessions' = st.s
          /\ writers' = st.w
    /\ RecordStatus(id, "running")
    /\ UNCHANGED <<child, created, response>>
    /\ UNCHANGED kbVars

----
(* The knowledge-base routes.  userKb is the user's (authoritative)        *)
(* knowledge_base directory, agentKb the agent's (working) one; a tree is  *)
(* a function from the names of the files it holds to their text.  Every   *)
(* await of a handler is a step of its own, so requests interleave.        *)

Files == {<<"f", ".", "m", "d">>, <<"g", ".", "m", "d">>}
BadNames == {<<".", ".">>, <<"a", "/", "f">>, <<"a", "\\", "f">>}
Names == Files \cup BadNames \cup {<<>>}        \* <<>>: no filename in the body
Contents == {<<"A", "\n">>, <<"B", "\n">>}
Trees == UNION {[D -> Contents] : D \in SUBSET Files}

\* String.prototype.includes
includes(name, sub) ==
    \E i \in 0..(Len(name) - Len(sub)) : SubSeq(name, i + 1, i + Len(sub)) = sub

\* filename.includes('..') || filename.includes('/') || filename.includes('\\')
invalidFilename(filename) ==
    includes(filename, <<".", ".">>) \/ includes(filename, <<"/">>)
        \/ includes(filename, <<"\\">>)

\* fs.existsSync(path.join(dir, filename))
existsSync(tree, filename) == filename \in DOMAIN tree

\* mutant: the write replaces the directory's whole content
writeFile_Clobber(tree, filename, content) ==
    [x \in {filename} |-> content]

\* mutant: appendFile instead of writeFile
writeFile_Append(tree, filename, content) ==
    [x \in DOMAIN tree \cup {filename} |->
        IF x # filename THEN tree[x]
        ELSE IF filename \in DOMAIN tree THEN tree[filename] \o content ELSE content]

\* fs.promises.writeFile(path, content, 'utf8')
writeFile(tree, filename, content) ==
    [x \in DOMAIN tree \cup {filename} |-> IF x = filename THEN content ELSE tree[x]]

\* mutant: the file is left in place
unlink_Keeps(tree, filename) == tree

\* fs.promises.unlink(path)
unlink(tree, filename) == [x \in DOMAIN tree \ {filename} |-> tree[x]]

\* the state of one file in a tree: <<content>> if it exists, <<>> if not
FileState(tree, filename) == IF filename \in DOMAIN tree THEN <<tree[filename]>> ELSE <<>>

\* fsAccess is history: what the handler has touched on the filesystem so
\* far ("none", "config": project.yaml, "trees": the knowledge-base directories)
NoReq == [op |-> "idle", filename |-> <<>>, pc |-> "idle", content |-> <<>>,
          code |-> 0, did |-> "nothing", alone |-> TRUE, fsAccess |-> "none"]

Done(req, code) == [req EXCEPT !.pc = "done", !.code = code]

\* history: another writer has written the file of a request in flight
Disturb(rs, r, filename) ==
    [x \in DOMAIN rs |->
        IF x # r /\ rs[x].op # "idle" /\ rs[x].filename = filename
        THEN [rs[x] EXCEPT !.alone = FALSE] ELSE rs[x]]

\* mutant: a file the agent deleted is left in the user's knowledge base
acceptNext_NoUnlink(agent, user, filename) ==
    IF existsSync(agent, filename) THEN "read" ELSE "done"

\* kb-accept-file: if (existsSync(agentFilePath)) read and write
\* else if (existsSync(userFilePath)) unlink
acceptNext(agent, user, filename) ==
    IF existsSync(agent, filename) THEN "read"
    ELSE IF existsSync(user, filename) THEN "unlink"
    ELSE "done"

\* mutant: a file the user does not have is left in the agent's knowledge base
rejectNext_NoUnlink(user, agent, filename) ==
    IF existsSync(user, filename) THEN "read" ELSE "done"

\* kb-reject-file: if (existsSync(userFilePath)) read and write
\* else if (existsSync(agentFilePath)) unlink
rejectNext(user, agent, filename) ==
    IF existsSync(user, filename) THEN "read"
    ELSE IF existsSync(agent, filename) THEN "unlink"
    ELSE "done"

\* the trees after one whole call of kb-accept-file that no other request
\* interleaves with: lines 73-83 run from the test of the agent's file on
acceptFile(user, agent, filename) ==
    LET pc == acceptNext(agent, user, filename)
    IN [user |-> IF pc = "read" THEN writeFile(user, filename, agent[filename])
                 ELSE IF pc = "unlink" THEN unlink(user, filename)
                 ELSE user,
        agent |-> agent]

\* the same for kb-reject-file
rejectFile(user, agent, filename) ==
    LET pc == rejectNext(user, agent, filename)
    IN [user |-> user,
        agent |-> IF pc = "read" THEN writeFile(agent, filename, user[filename])
                  ELSE IF pc = "unlink" THEN unlink(agent, filename)
                  ELSE agent]

AfterDir(req) ==
    LET pc == IF req.op = "accept" THEN acceptNext(agentKb, userKb, req.filename)
              ELSE rejectNext(userKb, agentKb, req.filename)
    IN IF pc = "done" THEN Done(req, 200) ELSE [req EXCEPT !.pc = pc]

\* the directory a request writes to, and the tree it reads from
Target(req) == IF req.op = "accept" THEN "user" ELSE "agent"
SourceTree(req) == IF req.op = "accept" THEN agentKb ELSE userKb
TargetTree(req) == IF req.op = "accept" THEN userKb ELSE agentKb

\* POST: body.filename, existsSync(projectYamlPath), await readFile(project.yaml)
KbBegin(r, op, filename) ==
    /\ reqs[r].op = "idle"
    /\ LET req == [NoReq EXCEPT !.op = op, !.filename = filename]
       IN reqs' = [reqs EXCEPT ![r] =
            IF filename = <<>> THEN Done(req, 400)
            ELSE IF config = "missing" THEN Done([req EXCEPT !.fsAccess = "config"], 404)
            ELSE [req EXCEPT !.pc = "config", !.fsAccess = "config"]]
    /\ UNCHANGED <<userKb, agentKb, dirs, config>>
    /\ UNCHANGED <<sessionVars, diffVars, moreVars>>

\* parseSimpleYaml, input_dir, the filename check, existsSync(dir), and
\* when the directory exists the existsSync tests of the two files
KbConfig(r) ==
    /\ reqs[r].pc = "config"
    /\ LET req == reqs[r]
       IN reqs' = [reqs EXCEPT ![r] =
            IF config = "noInputDir" THEN Done(req, 500)
            ELSE IF invalidFilename(req.filename) THEN Done(req, 400)
            ELSE IF ~dirs[Target(req)] THEN [req EXCEPT !.pc = "mkdir", !.fsAccess = "trees"]
            ELSE AfterDir([req EXCEPT !.fsAccess = "trees"])]
    /\ UNCHANGED <<userKb, agentKb, dirs, config>>
    /\ UNCHANGED <<sessionVars, diffVars, moreVars>>

\* await fs.promises.mkdir(dir, {recursive: true})
KbMkdir(r) ==
    /\ reqs[r].pc = "mkdir"
    /\ dirs' = [dirs EXCEPT ![Target(reqs[r])] = TRUE]
    /\ reqs' = [reqs EXCEPT ![r] = AfterDir(reqs[r])]
    /\ UNCHANGED <<userKb, agentKb, config>>
    /\ UNCHANGED <<sessionVars, diffVars, moreVars>>

\* await fs.promises.readFile(sourcePath, 'utf8'): ENOENT if the file has
\* been removed since the existsSync test
KbRead(r) ==
    /\ reqs[r].pc = "read"
    /\ LET req == reqs[r]
       IN reqs' = [reqs EXCEPT ![r] =
            IF existsSync(SourceTree(req), req.filename)
            THEN [req EXCEPT !.pc = "write", !.content = SourceTree(req)[req.filename]]
            ELSE Done(req, 500)]
    /\ UNCHANGED <<userKb, agentKb, dirs, config>>
    /\ UNCHANGED <<sessionVars, diffVars, moreVars>>

\* await fs.promises.writeFile(targetPath, content, 'utf8')
KbWrite(r) ==
    /\ reqs[r].pc = "write"
    /\ LET req == reqs[r]
           tree == writeFile(TargetTree(req), req.filename, req.content)
       IN /\ userKb' = IF req.op = "accept" THEN tree ELSE userKb
          /\ agentKb' = IF req.op = "reject" THEN tree ELSE agentKb
          /\ reqs' = [Disturb(reqs, r, req.filename) EXCEPT
                        ![r] = Done([req EXCEPT !.did = "written"], 200)]
    /\ UNCHANGED <<dirs, config>>
    /\ UNCHANGED <<sessionVars, diffVars, moreVars>>

\* await fs.promises.unlink(targetPath): ENOENT if the file is already gone
KbUnlink(r) ==
    /\ reqs[r].pc = "unlink"
    /\ LET req == reqs[r]
           there == existsSync(TargetTree(req), req.filename)
           tree == unlink(TargetTree(req), req.filename)
       IN /\ userKb' = IF req.op = "accept" THEN tree ELSE userKb
          /\ agentKb' = IF req.op = "reject" THEN tree ELSE agentKb
          /\ reqs' = IF there
                     THEN [Disturb(reqs, r, req.filename) EXCEPT
                                ![r] = Done([req EXCEPT !.did = "unlinked"], 200)]
                     ELSE [reqs EXCEPT ![r] = Done(req, 500)]
    /\ UNCHANGED <<dirs, config>>
    /\ UNCHANGED <<sessionVars, diffVars, moreVars>>

\* the response has been sent
KbReturn(r) ==
    /\ reqs[r].pc = "done"
    /\ reqs' = [reqs EXCEPT ![r] = NoReq]
    /\ UNCHANGED <<userKb, agentKb, dirs, config>>
    /\ UNCHANGED <<sessionVars, diffVars, moreVars>>

----
(* The save route of the knowledge-base editor (POST /api/knowledge-base): *)
(* the browser sends the path of a file and its new content.               *)

\* where the path of the request points: into the agent's knowledge_base
\* directory, outside of it, or nowhere (no path in the body)
Places == {"agentKb", "outside", "none"}

\* POST: the body, getKbDirs() (synchronous), the check of the path, then
\* await writeFile(resolvedAgentPath)
SaveBegin(r, place, filename, content) ==
    /\ reqs[r].op = "idle"
    /\ LET req == [NoReq EXCEPT !.op = "save", !.filename = filename, !.content = content]
       IN reqs' = [reqs EXCEPT ![r] =
            IF place = "none" THEN Done(req, 400)
            ELSE IF config # "ok" THEN Done([req EXCEPT !.fsAccess = "config"], 500)
            ELSE IF place = "outside" THEN Done([req EXCEPT !.fsAccess = "config"], 400)
            ELSE [req EXCEPT !.pc = "saveAgent", !.fsAccess = "config"]]
    /\ UNCHANGED <<userKb, agentKb, dirs, config>>
    /\ UNCHANGED <<sessionVars, diffVars, moreVars>>

\* await fs.promises.writeFile(resolvedAgentPath, content, 'utf8'): ENOENT
\* if the agent's directory does not exist
SaveAgent(r) ==
    /\ reqs[r].pc = "saveAgent"
    /\ LET req == [reqs[r] EXCEPT !.fsAccess = "trees"]
       IN IF dirs["agent"]
          THEN /\ agentKb' = writeFile(agentKb, req.filename, req.content)
               /\ reqs' = [Disturb(reqs, r, req.filename) EXCEPT
                                ![r] = [req EXCEPT !.pc = "saveMkdir"]]
          ELSE /\ reqs' = [reqs EXCEPT ![r] = Done(req, 500)]
               /\ UNCHANGED agentKb
    /\ UNCHANGED <<userKb, dirs, config>>
    /\ UNCHANGED <<sessionVars, diffVars, moreVars>>

\* await fs.promises.mkdir(path.dirname(resolvedUserPath), {recursive: true})
SaveMkdir(r) ==
    /\ reqs[r].pc = "saveMkdir"
    /\ dirs' = [dirs EXCEPT !["user"] = TRUE]
    /\ reqs' = [reqs EXCEPT ![r].pc = "saveUser"]
    /\ UNCHANGED <<userKb, agentKb, config>>
    /\ UNCHANGED <<sessionVars, diffVars, moreVars>>

\* await fs.promises.writeFile(resolvedUserPath, content, 'utf8')
SaveUser(r) ==
    /\ reqs[r].pc = "saveUser"
    /\ LET req == reqs[r]
       IN /\ userKb' = writeFile(userKb, req.filename, req.content)
          /\ reqs' = [Disturb(reqs, r, req.filename) EXCEPT
                        ![r] = Done([req EXCEPT !.did = "written"], 200)]
    /\ UNCHANGED <<agentKb, dirs, config>>
    /\ UNCHANGED <<sessionVars, diffVars, moreVars>>

----
(* The line diff of kb-diff.  A text is a sequence of characters; a line   *)
(* is the text between two "\n".                                           *)

\* the texts given to computeUnifiedDiff: up to MaxLines lines, the last
\* one with or without its terminator
LineAlphabet == {<<"A">>, <<"B">>, <<>>}

RECURSIVE joinLines(_, _)
joinLines(lines, terminated) ==
    IF lines = <<>> THEN <<>>
    ELSE IF Len(lines) = 1 THEN lines[1] \o (IF terminated THEN <<"\n">> ELSE <<>>)
    ELSE lines[1] \o <<"\n">> \o joinLines(Tail(lines), terminated)

LineTexts ==
    {joinLines(ls, t) : ls \in SeqsUpTo(LineAlphabet, MaxLines), t \in BOOLEAN}

\* the tokens Diff.diffLines compares: the lines with their terminator, a
\* last line without terminator being a token of its own
RECURSIVE tokenize(_)
tokenize(value) ==
    LET i == IndexOfNL(value)
    IN IF value = <<>> THEN <<>>
       ELSE IF i = 0 THEN <<value>>
       ELSE <<SubSeq(value, 1, i)>> \o tokenize(SubSeq(value, i + 1, Len(value)))

\* length of a longest common subsequence
RECURSIVE lcs(_, _)
lcs(a, b) ==
    IF a = <<>> \/ b = <<>> THEN 0
    ELSE IF Head(a) = Head(b) THEN 1 + lcs(Tail(a), Tail(b))
    ELSE LET x == lcs(Tail(a), b)
             y == lcs(a, Tail(b))
         IN IF x >= y THEN x ELSE y

Change(kind, value) == [kind |-> kind, value |-> value]

\* a shortest edit script from the old tokens to the new ones; where a
\* removal and an insertion meet, the removal comes first
RECURSIVE editScript(_, _)
editScript(a, b) ==
    IF a = <<>> THEN [k \in 1..Len(b) |-> Change("added", b[k])]
    ELSE IF b = <<>> THEN [k \in 1..Len(a) |-> Change("removed", a[k])]
    ELSE IF Head(a) = Head(b)
         THEN <<Change("same", Head(a))>> \o editScript(Tail(a), Tail(b))
    ELSE IF lcs(Tail(a), b) >= lcs(a, Tail(b))
         THEN <<Change("removed", Head(a))>> \o editScript(Tail(a), b)
    ELSE <<Change("added", Head(b))>> \o editScript(a, Tail(b))

\* consecutive tokens of one kind make one change object, its value their
\* concatenation
RECURSIVE mergeChanges(_)
mergeChanges(script) ==
    IF Len(script) <= 1 THEN script
    ELSE LET rest == mergeChanges(Tail(script))
         IN IF Head(rest).kind = script[1].kind
            THEN <<Change(script[1].kind, script[1].value \o Head(rest).value)>> \o Tail(rest)
            ELSE <<script[1]>> \o rest

\* Diff.diffLines(oldContent, newContent)
diffLines(oldContent, newContent) ==
    mergeChanges(editScript(tokenize(oldContent), tokenize(newContent)))

\* mutant: the empty piece after the last terminator is kept
changeLines_NoPop(value) == split(value)

\* change.value.split('\n'), and lines.pop() when the last piece is empty
changeLines(value) ==
    LET lines == split(value)
    IN IF lines[Len(lines)] = <<>> THEN SubSeq(lines, 1, Len(lines) - 1) ELSE lines

Op(type, line, lineNum) == [type |-> type, line |-> line, lineNum |-> lineNum]

\* mutant: deletions are numbered with the counter of the new content
RECURSIVE pushChanges_OneCounter(_, _, _)
pushChanges_OneCounter(changes, oldLineNum, newLineNum) ==
    IF changes = <<>> THEN <<>>
    ELSE LET lines == changeLines(Head(changes).value)
             n == Len(lines)
         IN IF Head(changes).kind = "added"
            THEN [k \in 1..n |-> Op("add", lines[k], newLineNum + k - 1)]
                    \o pushChanges_OneCounter(Tail(changes), oldLineNum, newLineNum + n)
            ELSE IF Head(changes).kind = "removed"
            THEN [k \in 1..n |-> Op("del", lines[k], newLineNum + k - 1)]
                    \o pushChanges_OneCounter(Tail(changes), oldLineNum + n, newLineNum)
            ELSE [k \in 1..n |-> Op("ctx", lines[k], newLineNum + k - 1)]
                    \o pushChanges_OneCounter(Tail(changes), oldLineNum + n, newLineNum + n)

\* mutant: unchanged lines advance the counters but are not reported
RECURSIVE pushChanges_NoContext(_, _, _)
pushChanges_NoContext(changes, oldLineNum, newLineNum) ==
    IF changes = <<>> THEN <<>>
    ELSE LET lines == changeLines(Head(changes).value)
             n == Len(lines)
         IN IF Head(changes).kind = "added"
            THEN [k \in 1..n |-> Op("add", lines[k], newLineNum + k - 1)]
                    \o pushChanges_NoContext(Tail(changes), oldLineNum, newLineNum + n)
            ELSE IF Head(changes).kind = "removed"
            THEN [k \in 1..n |-> Op("del", lines[k], oldLineNum + k - 1)]
                    \o pushChanges_NoContext(Tail(changes), oldLineNum + n, newLineNum)
            ELSE pushChanges_NoContext(Tail(changes), oldLineNum + n, newLineNum + n)

\* for (const change of changes): the operations pushed to result, with
\* the two line counters
RECURSIVE pushChanges(_, _, _)
pushChanges(changes, oldLineNum, newLineNum) ==
    IF changes = <<>> THEN <<>>
    ELSE LET lines == changeLines(Head(changes).value)
             n == Len(lines)
         IN IF Head(changes).kind = "added"
            THEN [k \in 1..n |-> Op("add", lines[k], newLineNum + k - 1)]
                    \o pushChanges(Tail(changes), oldLineNum, newLineNum + n)
            ELSE IF Head(changes).kind = "removed"
            THEN [k \in 1..n |-> Op("del", lines[k], oldLineNum + k - 1)]
                    \o pushChanges(Tail(changes), oldLineNum + n, newLineNum)
            ELSE [k \in 1..n |-> Op("ctx", lines[k], newLineNum + k - 1)]
                    \o pushChanges(Tail(changes), oldLineNum + n, newLineNum + n)

\* the older computeUnifiedDiff: the two contents compared index by index
RECURSIVE indexByIndex(_, _, _, _)
indexByIndex(oldLines, newLines, i, j) ==
    IF i > Len(oldLines) /\ j > Len(newLines) THEN <<>>
    ELSE IF i > Len(oldLines)
         THEN <<Op("add", newLines[j], j)>> \o indexByIndex(oldLines, newLines, i, j + 1)
    ELSE IF j > Len(newLines)
         THEN <<Op("del", oldLines[i], i)>> \o indexByIndex(oldLines, newLines, i + 1, j)
    ELSE IF oldLines[i] = newLines[j]
         THEN <<Op("ctx", oldLines[i], j)>> \o indexByIndex(oldLines, newLines, i + 1, j + 1)
    ELSE <<Op("del", oldLines[i], i), Op("add", newLines[j], j)>>
            \o indexByIndex(oldLines, newLines, i + 1, j + 1)

\* mutant: the index-by-index comparison in place of the LCS diff
computeUnifiedDiff_IndexByIndex(oldContent, newContent) ==
    indexByIndex(split(oldContent), split(newContent), 1, 1)

\* computeUnifiedDiff(oldContent, newContent, filename)
computeUnifiedDiff(oldContent, newContent) ==
    pushChanges(diffLines(oldContent, newContent), 1, 1)

NoLineDiff == [pc |-> "idle", oldContent |-> <<>>, newContent |-> <<>>, result |-> <<>>]

\* one call of computeUnifiedDiff
ComputeDiff ==
    /\ lineDiff.pc = "call"
    /\ lineDiff' = [lineDiff EXCEPT
            !.pc = "returned",
            !.result = computeUnifiedDiff(lineDiff.oldContent, lineDiff.newContent)]
    /\ UNCHANGED <<userKb, agentKb, dirs, config, reqs, scan>>
    /\ UNCHANGED <<sessionVars, moreVars>>

----
(* GET kb-diff.  The handler is suspended at every await: the read of      *)
(* project.yaml, the two readdir calls and every readFile; the agent may   *)
(* edit its directory in between.                                          *)

MdSuffix == <<".", "m", "d">>
OtherFile == <<"n">>                    \* a directory entry that is not a .md file
DirFiles == Files \cup {OtherFile}
TwoLines == <<"A", "\n", "B", "\n">>
ScanContents == Contents \cup {TwoLines}
DirTrees ==
    {t \in UNION {[D -> ScanContents] : D \in SUBSET DirFiles} :
        OtherFile \in DOMAIN t => t[OtherFile] = TwoLines}

\* String.prototype.endsWith
endsWith(name, suffix) ==
    Len(name) >= Len(suffix)
        /\ SubSeq(name, Len(name) - Len(suffix) + 1, Len(name)) = suffix

\* the orders in which readdir may list the entries of a directory
Perms(S) ==
    {order \in [1..Cardinality(S) -> S] :
        \A i, j \in 1..Cardinality(S) : order[i] = order[j] => i = j}

\* the entries listed in the order of their names
RECURSIVE Sorted(_, _)
Sorted(S, names) ==
    IF names = <<>> THEN <<>>
    ELSE (IF Head(names) \in S THEN <<Head(names)>> ELSE <<>>) \o Sorted(S, Tail(names))

NameOrder == <<<<"f", ".", "m", "d">>, <<"g", ".", "m", "d">>, <<"n">>>>

\* for (const entry of entries) if (entry.isFile() && entry.name.endsWith('.md'))
\* files.add(entry.name): a Set keeps the order of insertion
mdFiles(entries) == SelectSeq(entries, LAMBDA name : endsWith(name, MdSuffix))

\* Set.prototype.has
has(files, filename) == \E k \in 1..Len(files) : files[k] = filename

\* an element of changedFiles
ChangeRecord(filename, status, oldContent, newContent) ==
    [filename |-> filename, status |-> status,
     diff |-> computeUnifiedDiff(oldContent, newContent),
     oldContent |-> oldContent, newContent |-> newContent]

\* quiet and readFailed are history: no file was written since the request
\* began; a readFile has thrown
NoScan == [pc |-> "idle", userKbExists |-> FALSE, agentKbExists |-> FALSE,
           userFiles |-> <<>>, agentFiles |-> <<>>, i |-> 0, userContent |-> <<>>,
           changedFiles |-> <<>>, code |-> 0, quiet |-> TRUE, readFailed |-> FALSE]

\* return NextResponse.json({changedFiles, ...})
ScanDone(sc) == [sc EXCEPT !.pc = "done", !.code = 200]

\* an error response carries no changedFiles
ScanError(sc, code) == [sc EXCEPT !.pc = "done", !.code = code, !.changedFiles = <<>>]

\* catch (err): the response is {error: err.message}, status 500
ReadFailed(sc) == [ScanError(sc, 500) EXCEPT !.readFailed = TRUE]

\* mutant: the loops also read the files they need not report
RECURSIVE Advance_ReadsAll(_)
Advance_ReadsAll(sc) ==
    IF sc.pc = "added"
    THEN IF sc.i > Len(sc.agentFiles) THEN Advance_ReadsAll([sc EXCEPT !.pc = "deleted", !.i = 1])
         ELSE sc
    ELSE IF sc.pc = "deleted"
    THEN IF sc.i > Len(sc.userFiles) THEN Advance_ReadsAll([sc EXCEPT !.pc = "modified", !.i = 1])
         ELSE sc
    ELSE IF sc.i > Len(sc.userFiles) THEN ScanDone(sc)
         ELSE IF ~has(sc.agentFiles, sc.userFiles[sc.i])
              THEN Advance_ReadsAll([sc EXCEPT !.i = sc.i + 1])
         ELSE sc

\* the three loops up to their next await: the files that are not read are
\* passed over, and the response is sent after the last loop
RECURSIVE Advance(_)
Advance(sc) ==
    IF sc.pc = "added"
    THEN IF sc.i > Len(sc.agentFiles) THEN Advance([sc EXCEPT !.pc = "deleted", !.i = 1])
         ELSE IF has(sc.userFiles, sc.agentFiles[sc.i])
              THEN Advance([sc EXCEPT !.i = sc.i + 1])
         ELSE sc
    ELSE IF sc.pc = "deleted"
    THEN IF sc.i > Len(sc.userFiles) THEN Advance([sc EXCEPT !.pc = "modified", !.i = 1])
         ELSE IF has(sc.agentFiles, sc.userFiles[sc.i])
              THEN Advance([sc EXCEPT !.i = sc.i + 1])
         ELSE sc
    ELSE IF sc.i > Len(sc.userFiles) THEN ScanDone(sc)
         ELSE IF ~has(sc.agentFiles, sc.userFiles[sc.i])
              THEN Advance([sc EXCEPT !.i = sc.i + 1])
         ELSE sc

\* lines 88-102: input_dir, the two existsSync tests
afterConfig(sc, cfg, d) ==
    IF cfg = "noInputDir" THEN ScanError(sc, 500)
    ELSE IF ~d["user"] /\ ~d["agent"] THEN ScanDone(sc)
    ELSE [sc EXCEPT !.userKbExists = d["user"], !.agentKbExists = d["agent"],
                    !.pc = IF d["user"] THEN "readdirUser" ELSE "readdirAgent"]

\* lines 108-115
afterReaddirUser(sc, entries) ==
    LET next == [sc EXCEPT !.userFiles = mdFiles(entries)]
    IN IF sc.agentKbExists THEN [next EXCEPT !.pc = "readdirAgent"]
       ELSE Advance([next EXCEPT !.pc = "added", !.i = 1])

\* lines 117-124
afterReaddirAgent(sc, entries) ==
    Advance([sc EXCEPT !.agentFiles = mdFiles(entries), !.pc = "added", !.i = 1])

\* changedFiles.push(record), and on to the next file
pushRecord(sc, record) ==
    Advance([sc EXCEPT !.changedFiles = Append(sc.changedFiles, record),
                       !.pc = IF sc.pc = "modifiedAgent" THEN "modified" ELSE sc.pc,
                       !.i = sc.i + 1, !.userContent = <<>>])

\* the handler from the completion of one readFile to its next await:
\* lines 133-142 (added), 150-159 (deleted), 169 and 170-182 (modified);
\* readFile throws when the file is no longer there
afterRead(sc, user, agent) ==
    LET filename == IF sc.pc = "added" THEN sc.agentFiles[sc.i] ELSE sc.userFiles[sc.i]
    IN IF sc.pc = "added"
       THEN IF ~existsSync(agent, filename) THEN ReadFailed(sc)
            ELSE pushRecord(sc, ChangeRecord(filename, "added", <<>>, agent[filename]))
       ELSE IF sc.pc = "deleted"
       THEN IF ~existsSync(user, filename) THEN ReadFailed(sc)
            ELSE pushRecord(sc, ChangeRecord(filename, "deleted", user[filename], <<>>))
       ELSE IF sc.pc = "modified"
       THEN IF ~existsSync(user, filename) THEN ReadFailed(sc)
            ELSE [sc EXCEPT !.pc = "modifiedAgent", !.userContent = user[filename]]
       ELSE IF ~existsSync(agent, filename) THEN ReadFailed(sc)
            ELSE IF sc.userContent # agent[filename]
                 THEN pushRecord(sc, ChangeRecord(filename, "modified", sc.userContent, agent[filename]))
            ELSE Advance([sc EXCEPT !.pc = "modified", !.i = sc.i + 1, !.userContent = <<>>])

\* the whole handler run on two trees nobody writes meanwhile, readdir
\* listing the entries in the given orders
RECURSIVE runScan(_, _, _, _, _)
runScan(sc, user, agent, userEntries, agentEntries) ==
    IF sc.pc = "done" THEN sc
    ELSE IF sc.pc = "readdirUser"
         THEN runScan(afterReaddirUser(sc, userEntries), user, agent, userEntries, agentEntries)
    ELSE IF sc.pc = "readdirAgent"
         THEN runScan(afterReaddirAgent(sc, agentEntries), user, agent, userEntries, agentEntries)
    ELSE runScan(afterRead(sc, user, agent), user, agent, userEntries, agentEntries)

diffTrees(user, agent, d, userEntries, agentEntries) ==
    runScan(afterConfig(NoScan, "ok", d), user, agent, userEntries, agentEntries)

\* GET: existsSync(projectYamlPath), await readFile(projectYamlPath)
DiffBegin ==
    /\ scan.pc = "idle"
    /\ scan' = IF config = "missing" THEN ScanError(scan, 404)
               ELSE [scan EXCEPT !.pc = "config"]
    /\ UNCHANGED <<userKb, agentKb, dirs, config, reqs, lineDiff>>
    /\ UNCHANGED <<sessionVars, moreVars>>

DiffConfig ==
    /\ scan.pc = "config"
    /\ scan' = afterConfig(scan, config, dirs)
    /\ UNCHANGED <<userKb, agentKb, dirs, config, reqs, lineDiff>>
    /\ UNCHANGED <<sessionVars, moreVars>>

\* await fs.promises.readdir(userKbDir, {withFileTypes: true})
DiffReaddirUser ==
    /\ scan.pc = "readdirUser"
    /\ \E entries \in Perms(DOMAIN userKb) : scan' = afterReaddirUser(scan, entries)
    /\ UNCHANGED <<userKb, agentKb, dirs, config, reqs, lineDiff>>
    /\ UNCHANGED <<sessionVars, moreVars>>

\* await fs.promises.readdir(agentKbDir, {withFileTypes: true})
DiffReaddirAgent ==
    /\ scan.pc = "readdirAgent"
    /\ \E entries \in Perms(DOMAIN agentKb) : scan' = afterReaddirAgent(scan, entries)
    /\ UNCHANGED <<userKb, agentKb, dirs, config, reqs, lineDiff>>
    /\ UNCHANGED <<sessionVars, moreVars>>

\* await fs.promises.readFile(path, 'utf8')
DiffRead ==
    /\ scan.pc \in {"added", "deleted", "modified", "modifiedAgent"}
    /\ scan' = afterRead(scan, userKb, agentKb)
    /\ UNCHANGED <<userKb, agentKb, dirs, config, reqs, lineDiff>>
    /\ UNCHANGED <<sessionVars, moreVars>>

\* the response has been sent
DiffReturn ==
    /\ scan.pc = "done"
    /\ scan' = NoScan
    /\ UNCHANGED <<userKb, agentKb, dirs, config, reqs, lineDiff>>
    /\ UNCHANGED <<sessionVars, moreVars>>

\* history: a file has been written while the request was in flight
Touch(sc) == IF sc.pc = "idle" THEN sc ELSE [sc EXCEPT !.quiet = FALSE]

\* the agent edits its knowledge base directly: it writes or removes a file
AgentEdit(filename) ==
    /\ dirs["agent"]
    /\ \/ \E content \in Contents :
            /\ FileState(agentKb, filename) # <<content>>
            /\ agentKb' = writeFile(agentKb, filename, content)
       \/ /\ existsSync(agentKb, filename)
          /\ agentKb' = unlink(agentKb, filename)
    /\ reqs' = Disturb(reqs, 0, filename)
    /\ scan' = Touch(scan)
    /\ UNCHANGED <<userKb, dirs, config, lineDiff>>
    /\ UNCHANGED <<sessionVars, moreVars>>

----
(* The browser pages.  A page holds React state (the session it follows,   *)
(* its status, the log lines shown, the pending changes shown), an         *)
(* EventSource (es: the stream writer serving it, seen: how many of the    *)
(* writer's events its onmessage has handled), what it has saved in        *)
(* localStorage, and its kb-diff requests in flight.  did is history.      *)

\* a page that has just been opened for the first time
NoPage == [session |-> 0, status |-> "idle", es |-> 0, seen |-> 0, lastEs |-> 0,
           logLines |-> <<>>, savedSession |-> 0, savedStatus |-> "idle",
           savedLogs |-> <<>>,
           fetches |-> 0, pending |-> {}, inflight |-> {}, handled |-> {},
           did |-> <<>>]

\* fetchKbDiff(): up to the await of fetch('/api/kb-diff')
fetchKbDiff(pg) ==
    [pg EXCEPT !.fetches = @ + 1,
               !.inflight = @ \cup {[n |-> pg.fetches + 1, state |-> "sent", changed |-> {}]}]

\* line && !line.startsWith('[') && !line.includes('in progress')
checksKb(line) == line # <<>> /\ Head(line) \notin {Head(InfoLine), ErrPrefix}

\* eventSource.onmessage of startSession (TriagePage, SynthesizePage)
onmessage(pg, msg) ==
    IF msg.type = "log"
    THEN LET shown == [pg EXCEPT !.logLines = Append(@, msg.line),
                                 !.did = Append(@, "log")]
         IN IF checksKb(msg.line) THEN fetchKbDiff(shown) ELSE shown
    ELSE LET set == [pg EXCEPT !.status = msg.status, !.did = Append(@, msg.status)]
             fetched == IF msg.status \in {"waiting", "exited"} THEN fetchKbDiff(set) ELSE set
         IN IF msg.status \in {"exited", "error"}
            THEN [fetched EXCEPT !.es = 0] ELSE fetched

\* new EventSource('/stream?session=id') after the start request: the page
\* is served by the writer of its GET request
PageSubscribe(w) ==
    /\ page.es = 0 /\ page.session = 0
    /\ writers[w].state = "open"
    /\ page' = [page EXCEPT !.session = writers[w].session, !.status = "running",
                            !.es = w, !.lastEs = w, !.seen = 0]
    /\ UNCHANGED <<userKb, agentKb, dirs, config, reqs, diffVars, feed, kb0, doc>>
    /\ UNCHANGED sessionVars

\* the next event of the stream reaches the page
PageMessage ==
    /\ page.es # 0
    /\ page.seen < Len(writers[page.es].recv)
    /\ page' = onmessage([page EXCEPT !.seen = @ + 1], writers[page.es].recv[page.seen + 1])
    /\ UNCHANGED <<userKb, agentKb, dirs, config, reqs, diffVars, feed, kb0, doc>>
    /\ UNCHANGED sessionVars

\* startSynthesize() after its awaits: setLogLines([]), the session of the
\* start request, reconnectToSession(sessionId); the persistence effects
\* save the session and remove the saved logs
PageStarted(w) ==
    /\ page.es = 0 /\ page.session = 0
    /\ writers[w].state = "open"
    /\ page' = [page EXCEPT !.session = writers[w].session, !.status = "running",
                            !.es = w, !.lastEs = w, !.seen = 0, !.logLines = <<>>,
                            !.savedSession = writers[w].session,
                            !.savedStatus = "running", !.savedLogs = <<>>]
    /\ UNCHANGED <<userKb, agentKb, dirs, config, reqs, diffVars, feed, kb0, doc>>
    /\ UNCHANGED sessionVars

\* es.onmessage of reconnectToSession, followed by the persistence effects
reconnectMessage(pg, msg) ==
    IF msg.type = "log"
    THEN [pg EXCEPT !.logLines = Append(@, msg.line),
                    !.savedLogs = Append(pg.logLines, msg.line),
                    !.did = Append(@, "log")]
    ELSE [pg EXCEPT !.status = msg.status, !.savedStatus = msg.status,
                    !.did = Append(@, msg.status)]

\* the next event of the stream reaches the synthesize page
PageEvent ==
    /\ page.es # 0
    /\ page.seen < Len(writers[page.es].recv)
    /\ page' = reconnectMessage([page EXCEPT !.seen = @ + 1],
                                writers[page.es].recv[page.seen + 1])
    /\ UNCHANGED <<userKb, agentKb, dirs, config, reqs, diffVars, feed, kb0, doc>>
    /\ UNCHANGED sessionVars

\* the page is reloaded: its EventSource is gone with the old document, and
\* loadState restores the session and the log lines from localStorage;
\* lastEs: the streams opened before the reload
PageReload ==
    /\ page.savedSession # 0
    /\ \A k \in 1..Len(page.did) : page.did[k] # "reload"
    /\ page' = [page EXCEPT !.session = page.savedSession, !.status = page.savedStatus,
                            !.logLines = page.savedLogs,
                            !.es = 0, !.seen = 0, !.lastEs = Cardinality(Attached),
                            !.did = Append(@, "reload")]
    /\ UNCHANGED <<userKb, agentKb, dirs, config, reqs, diffVars, feed, kb0, doc>>
    /\ UNCHANGED sessionVars

\* loadState: if (session.status === 'running') reconnectToSession(session.id),
\* the page being served by the writer of the new GET request
PageReconnect(w) ==
    /\ page.es = 0 /\ page.session # 0
    /\ page.status = "running"
    /\ w > page.lastEs
    /\ writers[w].state = "open" /\ writers[w].session = page.session
    /\ page' = [page EXCEPT !.es = w, !.seen = 0]
    /\ UNCHANGED <<userKb, agentKb, dirs, config, reqs, diffVars, feed, kb0, doc>>
    /\ UNCHANGED sessionVars

\* the filenames in the answer of GET /api/kb-diff on two trees
changedNames(user, agent, d) ==
    LET files == diffTrees(user, agent, d, Sorted(DOMAIN user, NameOrder),
                           Sorted(DOMAIN agent, NameOrder)).changedFiles
    IN {files[k].filename : k \in 1..Len(files)}

\* a call of fetchKbDiff() by the page: from onmessage, from loadFiles
PageFetch ==
    /\ page.fetches < MaxFetches
    /\ page' = fetchKbDiff(page)
    /\ UNCHANGED <<userKb, agentKb, dirs, config, reqs, diffVars, feed, kb0, doc>>
    /\ UNCHANGED sessionVars

\* the server handles the n-th kb-diff request of the page
DiffServe(n) ==
    /\ \E q \in page.inflight :
        /\ q.n = n /\ q.state = "sent"
        /\ page' = [page EXCEPT !.inflight =
                (@ \ {q}) \cup {[q EXCEPT !.state = "served",
                                          !.changed = changedNames(userKb, agentKb, dirs)]}]
    /\ UNCHANGED <<userKb, agentKb, dirs, config, reqs, diffVars, feed, kb0, doc>>
    /\ UNCHANGED sessionVars

\* fetchKbDiff() after its awaits: setPendingChanges(changesMap)
DiffDeliver(n) ==
    /\ \E q \in page.inflight :
        /\ q.n = n /\ q.state = "served"
        /\ page' = [page EXCEPT !.pending = q.changed, !.inflight = @ \ {q}]
    /\ UNCHANGED <<userKb, agentKb, dirs, config, reqs, diffVars, feed, kb0, doc>>
    /\ UNCHANGED sessionVars

\* acceptFile(filename) of the page, the request answered 200: the entry is
\* deleted from pendingChanges, then loadFiles() ends with fetchKbDiff()
PageAccept(filename) ==
    /\ filename \in page.pending \ page.handled
    /\ userKb' = acceptFile(userKb, agentKb, filename).user
    /\ page' = fetchKbDiff([page EXCEPT !.pending = @ \ {filename},
                                        !.handled = @ \cup {filename},
                                        !.did = Append(@, "accept")])
    /\ UNCHANGED <<agentKb, dirs, config, reqs, diffVars, feed, kb0, doc>>
    /\ UNCHANGED sessionVars

\* rejectFile(filename) of the page, the request answered 200: the entry is
\* deleted from pendingChanges, then fetchKbDiff()
PageReject(filename) ==
    /\ filename \in page.pending \ page.handled
    /\ agentKb' = rejectFile(userKb, agentKb, filename).agent
    /\ page' = fetchKbDiff([page EXCEPT !.pending = @ \ {filename},
                                        !.handled = @ \cup {filename},
                                        !.did = Append(@, "reject")])
    /\ UNCHANGED <<userKb, dirs, config, reqs, diffVars, feed, kb0, doc>>
    /\ UNCHANGED sessionVars

----
(* The export route (GET /api/kb-export).                                  *)

NoDoc == [code |-> 0, body |-> <<>>]

\* contentParts.join(sep)
RECURSIVE join(_, _)
join(parts, sep) ==
    IF parts = <<>> THEN <<>>
    ELSE IF Len(parts) = 1 THEN Head(parts)
    ELSE Head(parts) \o sep \o join(Tail(parts), sep)

\* entries.filter(isFile && name.endsWith('.md')).sort(localeCompare)
exportFiles(tree) == Sorted({name \in DOMAIN tree : endsWith(name, MdSuffix)}, NameOrder)

\* GET: getProjectConfig(), kbDir = <input_dir>/knowledge_base, readdir,
\* readFile of every file, join('\n')
kbExport(cfg, d, agent) ==
    IF cfg # "ok" THEN [code |-> 500, body |-> <<>>]
    ELSE IF ~d["agent"] THEN [code |-> 404, body |-> <<>>]
    ELSE LET files == exportFiles(agent)
         IN IF files = <<>> THEN [code |-> 404, body |-> <<>>]
            ELSE [code |-> 200,
                  body |-> join([k \in 1..Len(files) |-> agent[files[k]]], <<"\n">>)]

Export ==
    /\ doc = NoDoc
    /\ doc' = kbExport(config, dirs, agentKb)
    /\ UNCHANGED <<userKb, agentKb, dirs, config, reqs, diffVars, feed, kb0, page>>
    /\ UNCHANGED sessionVars

\* the download has been saved
ExportReturn ==
    /\ doc # NoDoc
    /\ doc' = NoDoc
    /\ UNCHANGED <<userKb, agentKb, dirs, config, reqs, diffVars, feed, kb0, page>>
    /\ UNCHANGED sessionVars

\* no request, no project, empty directories
KbQuiet ==
    /\ userKb = <<>>
    /\ agentKb = <<>>
    /\ dirs = [user |-> FALSE, agent |-> FALSE]
    /\ config = "ok"
    /\ reqs = [r \in Reqs |-> NoReq]

DiffQuiet ==
    /\ scan = NoScan
    /\ lineDiff = NoLineDiff

NoFeed == [pending |-> <<>>, isErr |-> FALSE, bytes |-> <<>>]
NoTrees == [user |-> <<>>, agent |-> <<>>]

ClientQuiet ==
    /\ page = NoPage
    /\ doc = NoDoc

MoreQuiet ==
    /\ feed = NoFeed
    /\ kb0 = NoTrees
    /\ ClientQuiet

\* at the start of a session the agent's knowledge base is a copy of the
\* user's; either directory may not exist yet
KbInit ==
    /\ config \in {"ok", "missing", "noInputDir"}
    /\ dirs \in [{"user", "agent"} -> BOOLEAN]
    /\ userKb \in Trees
    /\ dirs["user"] \/ userKb = <<>>
    /\ agentKb = IF dirs["agent"] THEN userKb ELSE <<>>
    /\ reqs = [r \in Reqs |-> NoReq]

SessionInit ==
    /\ sessions = <<>>
    /\ child = [i \in Ids |-> NoChild]
    /\ writers = [w \in Subs |-> NoWriter]
    /\ created = 0
    /\ response = 0
    /\ ghost = [statusHist |-> [i \in Ids |-> <<>>], attach |-> [w \in Subs |-> NoAttach]]

Init == SessionInit /\ KbQuiet /\ DiffQuiet /\ MoreQuiet

Next ==
    \/ StartSession
    \/ \E id \in Ids : ChildData(id)
    \/ \E id \in Ids, code \in ExitCodes : ChildExit(id, code)
    \/ \E id \in Ids : ChildError(id)
    \/ \E w \in Subs, id \in Ids \cup {0} : GetStream(w, id)
    \/ \E w \in Subs : Abort(w)
    \/ \E id \in Ids \cup {0} : Stop(id)
    \/ \E id \in Ids \cup {0}, text \in Texts : SendInput(id, text)

Spec == Init /\ [][Next]_vars

\* the session routes together with the turn boundaries
NextTurns ==
    \/ Next
    \/ \E id \in Ids : TurnWaiting(id)
    \/ \E id \in Ids : TurnRunning(id)

SpecTurns == Init /\ [][NextTurns]_vars

\* the knowledge-base routes and the agent's edits
InitKb == SessionInit /\ KbInit /\ DiffQuiet /\ MoreQuiet

NextKb ==
    \/ \E r \in Reqs, op \in {"accept", "reject"}, filename \in Names : KbBegin(r, op, filename)
    \/ \E r \in Reqs : KbConfig(r)
    \/ \E r \in Reqs : KbMkdir(r)
    \/ \E r \in Reqs : KbRead(r)
    \/ \E r \in Reqs : KbWrite(r)
    \/ \E r \in Reqs : KbUnlink(r)
    \/ \E r \in Reqs : KbReturn(r)
    \/ \E filename \in Files : AgentEdit(filename)

SpecKb == InitKb /\ [][NextKb]_vars

\* GET kb-diff on every pair of directories, the agent editing meanwhile
InitDiff ==
    /\ SessionInit
    /\ config \in {"ok", "missing", "noInputDir"}
    /\ dirs \in [{"user", "agent"} -> BOOLEAN]
    /\ userKb \in DirTrees /\ (dirs["user"] \/ userKb = <<>>)
    /\ agentKb \in DirTrees /\ (dirs["agent"] \/ agentKb = <<>>)
    /\ reqs = [r \in Reqs |-> NoReq]
    /\ DiffQuiet /\ MoreQuiet

NextDiff ==
    \/ DiffBegin
    \/ DiffConfig
    \/ DiffReaddirUser
    \/ DiffReaddirAgent
    \/ DiffRead
    \/ DiffReturn
    \/ \E filename \in Files : AgentEdit(filename)

SpecDiff == InitDiff /\ [][NextDiff]_vars

\* computeUnifiedDiff on every pair of texts
InitLines ==
    /\ SessionInit /\ KbQuiet /\ MoreQuiet
    /\ scan = NoScan
    /\ lineDiff \in [pc : {"call"}, oldContent : LineTexts, newContent : LineTexts,
                      result : {<<>>}]

NextLines == ComputeDiff

SpecLines == InitLines /\ [][NextLines]_vars

\* several start requests, from any number of clients, with stop requests,
\* stream requests and the exits of the processes in between
InitStarts ==
    /\ sessions = <<>>
    /\ child = [i \in StartIds |-> NoChild]
    /\ writers = [w \in Subs |-> NoWriter]
    /\ created = 0
    /\ response = 0
    /\ ghost = [statusHist |-> [i \in StartIds |-> <<>>],
                attach |-> [w \in Subs |-> NoAttach]]
    /\ KbQuiet /\ DiffQuiet /\ MoreQuiet

NextStarts ==
    \/ StartSession
    \/ \E id \in StartIds, code \in ExitCodes : ChildExit(id, code)
    \/ \E id \in StartIds : ChildError(id)
    \/ \E w \in Subs, id \in StartIds \cup {0} : GetStream(w, id)
    \/ \E w \in Subs : Abort(w)
    \/ \E id \in StartIds \cup {0} : Stop(id)

SpecStarts == InitStarts /\ [][NextStarts]_vars

\* accept / reject requests racing on two directories that differ, each
\* request slot serving one call, the agent not writing meanwhile
InitRace ==
    /\ SessionInit /\ DiffQuiet
    /\ feed = NoFeed
    /\ config = "ok"
    /\ dirs \in [{"user", "agent"} -> BOOLEAN]
    /\ userKb \in Trees /\ (dirs["user"] \/ userKb = <<>>)
    /\ agentKb \in Trees /\ (dirs["agent"] \/ agentKb = <<>>)
    /\ reqs = [r \in Reqs |-> NoReq]
    /\ kb0 = [user |-> userKb, agent |-> agentKb]
    /\ ClientQuiet

NextRace ==
    \/ \E r \in Reqs, op \in {"accept", "reject"}, filename \in Names : KbBegin(r, op, filename)
    \/ \E r \in Reqs : KbConfig(r)
    \/ \E r \in Reqs : KbMkdir(r)
    \/ \E r \in Reqs : KbRead(r)
    \/ \E r \in Reqs : KbWrite(r)
    \/ \E r \in Reqs : KbUnlink(r)

SpecRace == InitRace /\ [][NextRace]_vars

\* the save route of the editor together with the accept / reject requests
\* and the agent's edits, each request slot serving one call
NextSave ==
    \/ NextRace
    \/ \E filename \in Files : AgentEdit(filename)
    \/ \E r \in Reqs, place \in Places, filename \in Files, content \in Contents :
            SaveBegin(r, place, filename, content)
    \/ \E r \in Reqs : SaveAgent(r)
    \/ \E r \in Reqs : SaveMkdir(r)
    \/ \E r \in Reqs : SaveUser(r)

SpecSave == InitKb /\ [][NextSave]_vars

\* the session routes with both input routes
NextInput ==
    \/ Next
    \/ \E id \in Ids \cup {0}, text \in Texts : SendInputPlain(id, text)

SpecInput == Init /\ [][NextInput]_vars

\* one session whose process emits a given output in given chunks
InitChunks ==
    /\ SessionInit /\ KbQuiet /\ DiffQuiet
    /\ feed \in [pending : Feeds, isErr : BOOLEAN, bytes : {<<>>}]
    /\ kb0 = NoTrees
    /\ ClientQuiet

NextChunks ==
    \/ StartSession
    \/ \E id \in Ids : StreamData(id)
    \/ \E id \in Ids, code \in ExitCodes : ChildExit(id, code)
    \/ \E id \in Ids : ChildError(id)

SpecChunks == InitChunks /\ [][NextChunks]_vars

\* the session routes with stream writers whose write fails
NextSinks ==
    \/ Next
    \/ \E w \in Subs : WriterBreak(w)

SpecSinks == Init /\ [][NextSinks]_vars

\* the session routes with a page that follows a session it has started
NextPage ==
    \/ Next
    \/ \E w \in Subs : PageSubscribe(w)
    \/ PageMessage

SpecPage == Init /\ [][NextPage]_vars

\* the session routes with a synthesize page that can be reloaded
NextReload ==
    \/ Next
    \/ \E w \in Subs : PageStarted(w)
    \/ PageEvent
    \/ PageReload
    \/ \E w \in Subs : PageReconnect(w)

SpecReload == Init /\ [][NextReload]_vars

\* a reviewer's page on two trees that no process is changing
InitReview ==
    /\ SessionInit /\ DiffQuiet
    /\ feed = NoFeed
    /\ config = "ok"
    /\ dirs = [user |-> TRUE, agent |-> TRUE]
    /\ userKb \in Trees
    /\ agentKb \in Trees
    /\ reqs = [r \in Reqs |-> NoReq]
    /\ kb0 = NoTrees
    /\ ClientQuiet

NextReview ==
    \/ PageFetch
    \/ \E n \in 1..(MaxFetches + Cardinality(Files)) : DiffServe(n)
    \/ \E n \in 1..(MaxFetches + Cardinality(Files)) : DiffDeliver(n)
    \/ \E filename \in Files : PageAccept(filename)
    \/ \E filename \in Files : PageReject(filename)

SpecReview == InitReview /\ [][NextReview]_vars

\* GET kb-export on every pair of directories
NextExport ==
    \/ Export
    \/ ExportReturn

SpecExport == InitDiff /\ [][NextExport]_vars

----
(* Properties of the session store and the event stream.                   *)

RECURSIVE LinesOf(_)
LinesOf(events) ==
    IF events = <<>> THEN <<>>
    ELSE (IF IsLog(Head(events)) THEN <<Head(events).line>> ELSE <<>>)
         \o LinesOf(Tail(events))

RECURSIVE StatusesOf(_)
StatusesOf(events) ==
    IF events = <<>> THEN <<>>
    ELSE (IF IsStatus(Head(events)) THEN <<Head(events).status>> ELSE <<>>)
         \o StatusesOf(Tail(events))

Live(w) == writers[w].state = "open" /\ writers[w].session \in DOMAIN sessions

\* C1: for every subscriber still attached to a registered session, the
\* log lines it has received (the history replayed at attach followed by the
\* live broadcasts) are exactly the session's log buffer, in order: every
\* buffered line once, no gap, no duplicate, whenever it attached.
C1_SubscriberReceivesBuffer ==
    \A w \in Subs :
        Live(w) => LinesOf(writers[w].recv) = sessions[writers[w].session].logs

\* a subscriber that attached after some lines were buffered and has since
\* received a live line
C1_Witness ==
    \E w \in Subs :
        /\ Live(w)
        /\ ghost.attach[w].logs >= 1
        /\ Len(sessions[writers[w].session].logs) > ghost.attach[w].logs

\* C2: the log is append-only: for every session that stays registered, the
\* history getLogs returns before a step is a prefix, in order, of the
\* history it returns after the step, so no entry is removed, reordered or
\* changed (getLogs returns the value of the buffer, a copy).
C2_LogAppendOnly ==
    [][\A id \in DOMAIN sessions \cap DOMAIN sessions' :
          IsPrefix(getLogs(sessions, id), getLogs(sessions', id))]_vars

\* a session whose buffer has grown by a chunk of two lines after the first
C2_Witness ==
    \E id \in DOMAIN sessions : Len(getLogs(sessions, id)) >= 3

\* what a writer was sent at attach, and what it was sent afterwards
Replayed(w) == SubSeq(writers[w].recv, 1, ghost.attach[w].logs + 1)
LiveEvents(w) == SubSeq(writers[w].recv, ghost.attach[w].logs + 2, Len(writers[w].recv))

IsSuffix(s, t) == Len(s) <= Len(t) /\ SubSeq(t, Len(t) - Len(s) + 1, Len(t)) = s

SameSession(w1, w2) ==
    /\ w1 < w2
    /\ Live(w1) /\ Live(w2)
    /\ writers[w1].session = writers[w2].session

RECURSIVE IsSubsequence(_, _)
IsSubsequence(s, t) ==
    IF s = <<>> THEN TRUE
    ELSE IF t = <<>> THEN FALSE
    ELSE IF Head(s) = Head(t) THEN IsSubsequence(Tail(s), Tail(t))
    ELSE IsSubsequence(s, Tail(t))

FourStatuses == <<"running", "waiting", "running", "exited">>

Last(s) == s[Len(s)]

Terminal == {"exited", "error"}

\* C6: once the status of a session is exited or error, no step (process
\* output, exit and error callbacks, input, attach, detach) changes it to
\* running or waiting.
C6_TerminalIsSink ==
    [][\A id \in DOMAIN sessions \cap DOMAIN sessions' :
          sessions[id].status \in Terminal
              => sessions'[id].status \notin {"running", "waiting"}]_vars

\* a terminated session that has since received output and a subscriber
C6_Witness ==
    \E id \in DOMAIN sessions, w \in Subs :
        /\ sessions[id].status \in Terminal
        /\ Live(w) /\ writers[w].session = id
        /\ ghost.attach[w].stat >= 2
        /\ LinesOf(LiveEvents(w)) # <<>>

\* C7 as stated: the terminal status is exited only if the process ended
\* with exit code 0; a non-zero exit code or a signal yields error.
C7_Original ==
    \A id \in DOMAIN sessions :
        LET ch == child[sessions[id].child]
        IN /\ sessions[id].status = "exited" => ch.exitCode = "0"
           /\ (ch.state = "exited" /\ ch.exitCode # "0") => sessions[id].status = "error"

\* C8: stop/dispose of a registered session, in whatever state the session
\* and its process are, answers 200 and removes the registry entry; the
\* entry never comes back, and stream, input and stop requests for that id
\* are answered 404 and change nothing.
C8_DisposeRemoves ==
    [][\A id \in Ids :
          /\ (id \in DOMAIN sessions /\ Stop(id))
                => (response' = 200 /\ id \notin DOMAIN sessions')
          /\ (id \notin DOMAIN sessions /\ id <= created) =>
                /\ id \notin DOMAIN sessions'
                /\ Stop(id) => response' = 404
                /\ \A w \in Subs : GetStream(w, id) => (response' = 404 /\ writers' = writers)
                /\ \A text \in Texts : SendInput(id, text) => (response' = 404 /\ child' = child)]_vars

\* a session disposed while its process was alive with input written to it,
\* and a later request for it answered 404
C8_Witness ==
    \E id \in Ids :
        /\ id <= created /\ id \notin DOMAIN sessions
        /\ child[id].killed /\ child[id].stdin # <<>>
        /\ response = 404

----
(* Properties of the knowledge-base routes.                                *)

Completed(req, op) ==
    req.op = op /\ req.pc = "done" /\ req.code = 200 /\ req.alone

\* C9: when accept(f) has completed for a valid filename and nobody else
\* has written f meanwhile, the user's tree has f exactly as the agent's
\* tree has it: the same content if the agent's tree has f (created in the
\* user's tree if it was absent), absent if the agent's tree has no f.
C9_AcceptCopies ==
    \A r \in Reqs :
        Completed(reqs[r], "accept") =>
            FileState(userKb, reqs[r].filename) = FileState(agentKb, reqs[r].filename)

\* one accept has written a file of the agent's tree to the user's tree,
\* another has removed from the user's tree a file the agent deleted
C9_Witness ==
    \E r1, r2 \in Reqs :
        /\ Completed(reqs[r1], "accept") /\ reqs[r1].did = "written"
        /\ Completed(reqs[r2], "accept") /\ reqs[r2].did = "unlinked"

\* C10: when reject(f) has completed for a valid filename and nobody else
\* has written f meanwhile, the agent's tree has f exactly as the user's
\* tree has it: the same content if the user's tree has f, absent from the
\* agent's tree if the user's tree has no f.
C10_RejectReverts ==
    \A r \in Reqs :
        Completed(reqs[r], "reject") =>
            FileState(agentKb, reqs[r].filename) = FileState(userKb, reqs[r].filename)

\* one reject has written the user's file back over the agent's, another
\* has removed from the agent's tree a file the agent had added
C10_Witness ==
    \E r1, r2 \in Reqs :
        /\ Completed(reqs[r1], "reject") /\ reqs[r1].did = "written"
        /\ Completed(reqs[r2], "reject") /\ reqs[r2].did = "unlinked"

\* a step of the handler of request r that runs after the filename check
KbStep(r) ==
    KbConfig(r) \/ KbMkdir(r) \/ KbRead(r) \/ KbWrite(r) \/ KbUnlink(r) \/ KbReturn(r)

OtherFilesSame(before, after, filename) ==
    \A g \in Files \ {filename} : FileState(after, g) = FileState(before, g)

\* C11: no step of accept(f) changes the agent's (working) tree or any file
\* of the user's (authoritative) tree other than f, and no step of reject(f)
\* changes the user's tree or any file of the agent's tree other than f; the
\* state of every other file in both trees, which is what its change record
\* is computed from, is the same before and after.
C11_OnlyThatFile ==
    [][\A r \in Reqs :
          KbStep(r) =>
              /\ reqs[r].op = "accept" =>
                    /\ agentKb' = agentKb
                    /\ OtherFilesSame(userKb, userKb', reqs[r].filename)
              /\ reqs[r].op = "reject" =>
                    /\ userKb' = userKb
                    /\ OtherFilesSame(agentKb, agentKb', reqs[r].filename)]_vars

\* a request has written or removed its file while another file, present in
\* both trees, still differs between them
C11_Witness ==
    \E r \in Reqs :
        /\ reqs[r].pc = "done" /\ reqs[r].code = 200 /\ reqs[r].did # "nothing"
        /\ \E g \in Files \ {reqs[r].filename} :
                /\ FileState(userKb, g) # FileState(agentKb, g)
                /\ g \in DOMAIN userKb /\ g \in DOMAIN agentKb

\* C12 as stated: a request whose filename has '..', '/' or '\' is answered
\* 400 (invalid filename) and has touched nothing on the filesystem.
C12_Original ==
    \A r \in Reqs :
        (reqs[r].pc = "done" /\ invalidFilename(reqs[r].filename)) =>
            reqs[r].code = 400 /\ reqs[r].fsAccess = "none"

\* C13: once accept(f) has completed, a second accept(f) called at once
\* changes neither tree, and the same for reject(f): the state one call
\* produced is the state two calls produce.
C13_Idempotent ==
    \A r \in Reqs :
        /\ Completed(reqs[r], "accept") =>
              acceptFile(userKb, agentKb, reqs[r].filename) = [user |-> userKb, agent |-> agentKb]
        /\ Completed(reqs[r], "reject") =>
              rejectFile(userKb, agentKb, reqs[r].filename) = [user |-> userKb, agent |-> agentKb]

\* an accept has copied a file over an older version in the user's tree and
\* a reject has copied a file back over the agent's version
C13_Witness ==
    \E r1, r2 \in Reqs :
        /\ Completed(reqs[r1], "accept") /\ reqs[r1].did = "written"
        /\ Completed(reqs[r2], "reject") /\ reqs[r2].did = "written"

----
(* Properties of the line diff.                                            *)

\* the lines of a content, and whether its last line has its terminator
ContentLines(content) ==
    LET pieces == split(content)
    IN IF pieces[Len(pieces)] = <<>> THEN SubSeq(pieces, 1, Len(pieces) - 1) ELSE pieces
Terminated(content) == content = <<>> \/ content[Len(content)] = "\n"

OpsOfType(ops, type) == SelectSeq(ops, LAMBDA op : op.type = type)
OpLines(ops) == [k \in 1..Len(ops) |-> ops[k].line]

\* b is a with one line inserted at some position
OneLineInserted(a, b) ==
    /\ Len(b) = Len(a) + 1
    /\ \E k \in 1..Len(b) : SubSeq(b, 1, k - 1) \o SubSeq(b, k + 1, Len(b)) = a

\* the context lines are a longest common subsequence of a and b
ContextIsLcs(ops, a, b) ==
    LET ctx == OpLines(OpsOfType(ops, "ctx"))
    IN /\ IsSubsequence(ctx, a)
       /\ IsSubsequence(ctx, b)
       /\ Len(ctx) = lcs(a, b)

SingleEdit(ops, a, b) ==
    /\ OneLineInserted(a, b) =>
            /\ Len(OpsOfType(ops, "add")) = 1
            /\ Len(OpsOfType(ops, "del")) = 0
            /\ Len(OpsOfType(ops, "ctx")) = Len(a)
    /\ OneLineInserted(b, a) =>
            /\ Len(OpsOfType(ops, "del")) = 1
            /\ Len(OpsOfType(ops, "add")) = 0
            /\ Len(OpsOfType(ops, "ctx")) = Len(b)

C17_LineNumbers ==
    lineDiff.pc = "returned" =>
        \A k \in 1..Len(lineDiff.result) :
            LET op == lineDiff.result[k]
                lines == IF op.type = "del" THEN split(lineDiff.oldContent)
                         ELSE split(lineDiff.newContent)
            IN op.lineNum \in 1..Len(lines) /\ lines[op.lineNum] = op.line

\* a diff with a deletion, an addition and a context line after them whose
\* numbers in the old and in the new content differ
C17_Witness ==
    /\ lineDiff.pc = "returned"
    /\ \E i, j, k \in 1..Len(lineDiff.result) :
            /\ lineDiff.result[i].type = "del" /\ lineDiff.result[i].lineNum = 2
            /\ lineDiff.result[j].type = "add" /\ lineDiff.result[j].lineNum = 1
            /\ lineDiff.result[k].type = "ctx" /\ k > i /\ k > j

----
(* Properties of GET kb-diff.                                              *)

RecordsOf(changedFiles, filename) ==
    SelectSeq(changedFiles, LAMBDA rec : rec.filename = filename)

Reported(changedFiles, filename, status) ==
    \E k \in 1..Len(changedFiles) :
        changedFiles[k].filename = filename /\ changedFiles[k].status = status

\* the request has answered 200 and no file was written while it ran
Scanned == scan.pc = "done" /\ scan.code = 200 /\ scan.quiet

\* the names the handler has collected from the two directories
Enumerated ==
    {scan.userFiles[k] : k \in 1..Len(scan.userFiles)}
        \cup {scan.agentFiles[k] : k \in 1..Len(scan.agentFiles)}

\* C14: when reject(f) has completed undisturbed for a file the agent had
\* modified, added or deleted, kb-diff run on the two directories, in
\* whatever order readdir lists them, answers with no record for f.
C14_RejectThenDiff ==
    \A r \in Reqs :
        Completed(reqs[r], "reject") =>
            \A userEntries \in Perms(DOMAIN userKb), agentEntries \in Perms(DOMAIN agentKb) :
                LET res == diffTrees(userKb, agentKb, dirs, userEntries, agentEntries)
                IN res.code = 200 /\ RecordsOf(res.changedFiles, reqs[r].filename) = <<>>

\* a reject has written or removed its file in the agent's directory, and
\* the diff still reports the other file
C14_Witness ==
    \E r \in Reqs :
        /\ Completed(reqs[r], "reject") /\ reqs[r].did # "nothing"
        /\ diffTrees(userKb, agentKb, dirs, Sorted(DOMAIN userKb, NameOrder),
                     Sorted(DOMAIN agentKb, NameOrder)).changedFiles # <<>>

\* C15: in the answer of a kb-diff request every collected file name is
\* reported as added exactly when only the agent's directory has it, as
\* deleted exactly when only the user's has it, as modified exactly when
\* both have it with different content; a file with the same content in
\* both is not reported, no name has two records, and every record is for a
\* collected name.
C15_Classification ==
    Scanned =>
        /\ \A f \in Enumerated :
            /\ Len(RecordsOf(scan.changedFiles, f)) <= 1
            /\ Reported(scan.changedFiles, f, "added")
                    <=> (f \in DOMAIN agentKb /\ f \notin DOMAIN userKb)
            /\ Reported(scan.changedFiles, f, "deleted")
                    <=> (f \in DOMAIN userKb /\ f \notin DOMAIN agentKb)
            /\ Reported(scan.changedFiles, f, "modified")
                    <=> (/\ f \in DOMAIN userKb /\ f \in DOMAIN agentKb
                         /\ userKb[f] # agentKb[f])
        /\ \A k \in 1..Len(scan.changedFiles) : scan.changedFiles[k].filename \in Enumerated

\* one file is reported as modified and another as deleted
C15_Witness ==
    /\ Scanned
    /\ \E f, g \in Files :
        /\ Reported(scan.changedFiles, f, "modified")
        /\ Reported(scan.changedFiles, g, "deleted")

\* the diff of a file that only one directory has: one operation of the
\* given type for each line of the content, in order
WholeFile(changedFiles, filename, status, type, content) ==
    LET recs == RecordsOf(changedFiles, filename)
    IN /\ Len(recs) = 1
       /\ recs[1].status = status
       /\ OpLines(recs[1].diff) = ContentLines(content)
       /\ \A k \in 1..Len(recs[1].diff) : recs[1].diff[k].type = type

WholeFileRecords(names) ==
    \A f \in names :
        /\ (f \in DOMAIN userKb /\ f \notin DOMAIN agentKb /\ Terminated(userKb[f])) =>
                WholeFile(scan.changedFiles, f, "deleted", "del", userKb[f])
        /\ (f \in DOMAIN agentKb /\ f \notin DOMAIN userKb /\ Terminated(agentKb[f])) =>
                WholeFile(scan.changedFiles, f, "added", "add", agentKb[f])

C19_Original ==
    Scanned =>
        scan.changedFiles =
            diffTrees(userKb, agentKb, dirs, Sorted(DOMAIN userKb, NameOrder),
                      Sorted(DOMAIN agentKb, NameOrder)).changedFiles

\* C20 as stated: a request one of whose reads has failed still answers 200
\* with the records of the other files.
C20_Original ==
    (scan.pc = "done" /\ scan.readFailed) => scan.code = 200

----
(* Sessions of one project *)

Active == {id \in DOMAIN sessions : child[sessions[id].child].state = "alive"}

\* C21: at every moment at most one session of the project is active (it is
\* registered and its process has not terminated): a start request disposes
\* the prior session before it spawns the new process.
C21_Original == Cardinality(Active) <= 1

----
(* Concurrent accept / reject requests *)

Now == [user |-> userKb, agent |-> agentKb]

\* the trees after one whole call served alone
Serve(t, req) ==
    IF req.filename = <<>> \/ invalidFilename(req.filename) THEN t
    ELSE IF req.op = "accept" THEN acceptFile(t.user, t.agent, req.filename)
    ELSE rejectFile(t.user, t.agent, req.filename)

Serial(t, first, second) == Serve(Serve(t, first), second)

\* exactly the requests r1 and r2 have been made, and both have completed
BothDone(r1, r2) ==
    /\ r1 # r2
    /\ reqs[r1].pc = "done" /\ reqs[r2].pc = "done"
    /\ \A r \in Reqs \ {r1, r2} : reqs[r].op = "idle"

\* C22: once two concurrent calls on the same file have both completed, the
\* two trees are as if the calls had run in some serial order; in particular
\* the trees agree on the file.
C22_Original ==
    \A r1, r2 \in Reqs :
        (BothDone(r1, r2) /\ reqs[r1].filename \in Files
            /\ reqs[r1].filename = reqs[r2].filename)
        => /\ Now \in {Serial(kb0, reqs[r1], reqs[r2]), Serial(kb0, reqs[r2], reqs[r1])}
           /\ FileState(userKb, reqs[r1].filename) = FileState(agentKb, reqs[r1].filename)

\* C23: calls on different files do not interfere: every interleaving of the
\* steps of a call on f with the steps of a call on g, f # g, ends in the
\* trees that the two calls produce when run one after the other, in either
\* order, and both calls succeed.
C23_NoInterference ==
    \A r1, r2 \in Reqs :
        (BothDone(r1, r2) /\ reqs[r1].filename \in Files /\ reqs[r2].filename \in Files
            /\ reqs[r1].filename # reqs[r2].filename)
        => /\ Now = Serial(kb0, reqs[r1], reqs[r2])
           /\ Now = Serial(kb0, reqs[r2], reqs[r1])
           /\ reqs[r1].code = 200 /\ reqs[r2].code = 200

\* an accept that wrote f and a reject that removed g have both completed
C23_Witness ==
    \E r1, r2 \in Reqs :
        /\ BothDone(r1, r2)
        /\ reqs[r1].filename \in Files /\ reqs[r2].filename \in Files
        /\ reqs[r1].filename # reqs[r2].filename
        /\ reqs[r1].op = "accept" /\ reqs[r1].did = "written"
        /\ reqs[r2].op = "reject" /\ reqs[r2].did = "unlinked"
        /\ Now # kb0

----
(* Writers of the user's knowledge base *)

\* C24: the authoritative tree is modified only by accept and reject: every
\* step that creates, writes or deletes a file of the user's knowledge base
\* is a step of a kb-accept-file or kb-reject-file request.
C24_Original ==
    [][userKb' # userKb =>
        \E r \in Reqs : reqs[r].op \in {"accept", "reject"} /\ KbStep(r)]_vars

----
(* Input written to the process *)

Terminators(data) == {i \in 1..Len(data) : data[i] = "\n"}

\* C25: what one sendInput call writes to the input stream of the process
\* is the text with every line terminator replaced by backslash and 'n',
\* followed by one line terminator: each write holds exactly one line
\* terminator, as its last character.
C25_Original ==
    \A id \in DOMAIN child : \A k \in 1..Len(child[id].stdin) :
        LET data == child[id].stdin[k]
        IN /\ Terminators(data) = {Len(data)}
           /\ \E text \in Texts : data = escapeNewlines(text) \o <<"\n">>

\* C26: sendInput for a session whose process has already exited (status
\* exited or error, the entry still registered) fails with InvalidSession
\* and writes nothing to the process.
C26_Original ==
    [][\A id \in DOMAIN sessions, text \in Texts :
        (SendInput(id, text) /\ sessions[id].status \in {"exited", "error"})
        => (response' = 404 /\ child' = child)]_vars

\* C27: a start request whose executable cannot be launched fails for that
\* call: the caller receives an error and no session identifier, and no
\* session is left in the registry.
C27_Original ==
    [][\A id \in DOMAIN child :
        (StartSession /\ created' = id /\ created # id /\ child'[id].state = "failed")
        => (response' # 200 /\ id \notin DOMAIN sessions')]_vars

----
(* Lines of the output of the process *)

\* the terminated lines of a text
CompleteLines(bytes) == SubSeq(split(bytes), 1, Len(split(bytes)) - 1)

Tagged(lines, isErr) ==
    [k \in 1..Len(lines) |-> IF isErr THEN <<ErrPrefix>> \o lines[k] ELSE lines[k]]

\* C28: the line events of a channel depend only on the bytes of the stream,
\* not on their division into chunks: while the process runs the log holds,
\* after the start line, one line per terminated line of the output so far,
\* nothing for an unterminated trailing fragment, and no empty line for a
\* chunk that ends with a terminator.
C28_Original ==
    \A id \in DOMAIN sessions :
        child[sessions[id].child].state = "alive"
        => getLogs(sessions, id) =
                <<InfoLine>> \o Tagged(CompleteLines(feed.bytes), feed.isErr)

----
(* The end of an event stream *)

\* the status the session had when the request of writer w was served
StatusAtAttach(w) == ghost.statusHist[writers[w].session][ghost.attach[w].stat]

\* C29: attaching to a session whose process has already terminated
\* succeeds, replays the complete history, and then immediately ends the
\* stream of that subscriber without registering it for live events.
C29_Original ==
    \A w \in Subs :
        (writers[w].state # "idle" /\ StatusAtAttach(w) \in {"exited", "error"})
        => /\ writers[w].state = "closed"
           /\ \A id \in DOMAIN sessions : w \notin sessions[id].clients

\* C30: the stream of a subscriber is ended when its session is disposed or
\* when the client disconnects, and in no other situation.
C30_Original ==
    [][\A w \in Subs : writers[w].state = "open" =>
        /\ (writers[w].session \in DOMAIN sessions \ DOMAIN sessions')
                => writers'[w].state = "closed"
        /\ writers'[w].state = "closed"
                => (Abort(w) \/ Stop(writers[w].session))]_vars

----
(* The export document *)

\* C31: the export document is the concatenation of the contents of all the
\* files of the authoritative tree in ascending filename order; content that
\* exists only in the working tree does not appear in it.
C31_Original ==
    doc.code = 200 =>
        LET files == Sorted(DOMAIN userKb, NameOrder)
        IN doc.body = join([k \in 1..Len(files) |-> userKb[files[k]]], <<>>)

----
(* Change detection by the page *)

\* C32: change detection is triggered exactly once per agent turn, at the
\* turn boundary: the page calls fetchKbDiff when, and only when, it is told
\* that the status of the session has become waiting or exited, and at no
\* other point of the output of the process.
C32_Original ==
    [][page'.fetches # page.fetches
        <=> /\ Len(page'.did) = Len(page.did) + 1
            /\ page'.did[Len(page'.did)] \in {"waiting", "exited"}]_vars

----
(* Failing sinks *)

Suffix(after, before) == SubSeq(after, Len(before) + 1, Len(after))

\* some sink attached to the session throws on write
HasBrokenSink(id) == \E w \in sessions[id].clients : writers[w].state = "broken"

\* C33: a sink whose write fails never prevents an event from being recorded
\* or delivered to the others: in every step of a session that has a failing
\* sink, each line appended to the buffer and each new status is written, in
\* order, to every other attached sink.
C33_FailingSinkIsolated ==
    [][\A id \in DOMAIN sessions \cap DOMAIN sessions' :
        \A w \in sessions[id].clients \cap sessions'[id].clients :
            (HasBrokenSink(id) /\ writers[w].state = "open" /\ writers'[w].state = "open")
            => /\ IsPrefix(writers[w].recv, writers'[w].recv)
               /\ IsPrefix(sessions[id].logs, sessions'[id].logs)
               /\ LinesOf(Suffix(writers'[w].recv, writers[w].recv))
                        = Suffix(sessions'[id].logs, sessions[id].logs)
               /\ StatusesOf(Suffix(writers'[w].recv, writers[w].recv))
                        = IF sessions'[id].status = sessions[id].status THEN <<>>
                          ELSE <<sessions'[id].status>>]_vars

\* a session with a failing sink that has missed a line and a working sink
\* that has received every line and the terminal status
C33_Witness ==
    \E id \in DOMAIN sessions, w1, w2 \in Subs :
        /\ {w1, w2} \subseteq sessions[id].clients
        /\ writers[w1].state = "broken" /\ writers[w2].state = "open"
        /\ w1 < w2
        /\ Len(LinesOf(writers[w1].recv)) < Len(sessions[id].logs)
        /\ LinesOf(writers[w2].recv) = sessions[id].logs
        /\ sessions[id].status \in {"exited", "error"}
        /\ StatusesOf(writers[w2].recv)[Len(StatusesOf(writers[w2].recv))] = sessions[id].status

----
(* The terminal status.  The exit and error handlers are independent       *)
(* listeners on the child; the runtime documents that 'exit' may or may    *)
(* not fire after 'error' has fired, and neither handler looks at the      *)
(* status the session already has.                                         *)

\* child.on('exit') for a child whose 'error' event has already been handled
ChildExitAfterError(id, code) ==
    /\ child[id].state = "errored"
    /\ LET st == setStatus(store, id, "exited", orZero(code))
       IN /\ sessions' = st.s
          /\ writers' = st.w
    /\ child' = [child EXCEPT ![id].state = "exited", ![id].exitCode = code]
    /\ RecordStatus(id, "exited")
    /\ UNCHANGED <<created, response>>
    /\ UNCHANGED kbVars

NextEvents ==
    \/ Next
    \/ \E id \in Ids, code \in ExitCodes : ChildExitAfterError(id, code)

SpecEvents == Init /\ [][NextEvents]_vars

\* C34: once the status of a session has become exited or error it never
\* changes again for as long as the session is registered; in particular it
\* never goes from error to exited or from exited to error, whatever order
\* the exit and error events of the process arrive in.
C34_Original ==
    [][\A id \in DOMAIN sessions \cap DOMAIN sessions' :
          sessions[id].status \in {"exited", "error"}
              => sessions'[id].status = sessions[id].status]_vars

----
(* Events of a process whose session has been disposed *)

\* the session was created and has been removed from the registry
Disposed(id) == id <= created /\ child[id].state # "none" /\ id \notin DOMAIN sessions

\* C35: after dispose(id), the output, exit and error events that the killed
\* process still produces are dropped: they create no registry entry, change
\* no state of any session, and are delivered to no subscriber.
C35_LateEventsDropped ==
    [][\A id \in Ids :
          (Disposed(id) /\ child'[id] # child[id])
              => /\ sessions' = sessions
                 /\ writers' = writers]_vars

\* the process was killed by dispose and has exited afterwards, while a
\* subscriber of the session still has its stream open
C35_Witness ==
    \E id \in Ids, w \in Subs :
        /\ Disposed(id)
        /\ child[id].killed /\ child[id].state = "exited"
        /\ writers[w].state = "open" /\ writers[w].session = id

----
(* The diff as an edit script *)

OpsOfTypes(ops, types) == SelectSeq(ops, LAMBDA op : op.type \in types)

\* C36: for every modified file the diff is a correct edit script: the lines
\* of its context and delete operations, taken in order, are exactly the
\* lines of the authoritative (old) content, and the lines of its context
\* and add operations, taken in order, are exactly the lines of the working
\* (new) content.
C36_EditScript ==
    (lineDiff.pc = "returned" /\ lineDiff.oldContent # lineDiff.newContent) =>
        /\ OpLines(OpsOfTypes(lineDiff.result, {"ctx", "del"}))
                = ContentLines(lineDiff.oldContent)
        /\ OpLines(OpsOfTypes(lineDiff.result, {"ctx", "add"}))
                = ContentLines(lineDiff.newContent)

\* a diff with context, deleted and added lines, of an old content whose
\* last line has no terminator
C36_Witness ==
    /\ lineDiff.pc = "returned"
    /\ lineDiff.oldContent # lineDiff.newContent
    /\ ~Terminated(lineDiff.oldContent)
    /\ Len(ContentLines(lineDiff.oldContent)) = 3
    /\ \A t \in {"ctx", "del", "add"} : OpsOfType(lineDiff.result, t) # <<>>

----
(* Completeness of the change list *)

\* C37 as stated: if the change list is empty, the working and the
\* authoritative root contain the same set of immediate regular files with
\* identical content, whatever the names or extensions of the files.
C37_Original ==
    (Scanned /\ dirs["user"] /\ dirs["agent"] /\ scan.changedFiles = <<>>)
        => /\ DOMAIN userKb = DOMAIN agentKb
           /\ \A f \in DOMAIN userKb : userKb[f] = agentKb[f]

----
(* The pending changes shown by the reviewer's page *)

\* C38 as stated: after accept(f) or reject(f) has succeeded and every
\* outstanding diff request has returned, the pending-changes map of the
\* page has no entry for f, for any order in which the responses to
\* concurrently issued diff requests arrive.
C38_Original ==
    page.inflight = {} => page.pending \cap page.handled = {}

----
(* The log shown by a page that has been reloaded *)

Reloaded == \E k \in 1..Len(page.did) : page.did[k] = "reload"

====
